---- MODULE Spec2Model ----
(***************************************************************************)
(* Offline-first synchronisation layer of poleshift-tauri:                 *)
(*   - OperationQueue (enqueue / dequeue / remove) over the                *)
(*     pending_operations store,                                           *)
(*   - SyncService.syncToRemote, the drain of that store,                  *)
(*   - useStorage.processUploadQueue / uploadFiles, the upload queue.      *)
(* The pending_operations and pending_uploads stores and                   *)
(* BaseService.handleError are modelled from the design document.          *)
(***************************************************************************)
EXTENDS Integers, Sequences, FiniteSets, TLC

\* ------------------------------------------------------------------ bounds
MaxOps == 3        \* enqueue calls in a behaviour (ids of pending operations)
MaxClock == 3      \* Date.now() ranges over 1..MaxClock
MaxSyncOps == 2    \* operations queued in a behaviour that also drains them

OpIds == 1..MaxOps
Syncs == {"s1", "s2"}      \* syncToRemote invocations that may overlap
Null == [none |-> TRUE]

\* The intents callers hand to enqueue: Omit<PendingOperation, id|timestamp|retryCount>
Intents ==
    { [type |-> "create", table |-> "x", data |-> "r1"],
      [type |-> "update", table |-> "y", data |-> "r2"],
      [type |-> "delete", table |-> "x", data |-> "r2"] }

VARIABLES
    now,        \* Date.now()
    enqSeq,     \* ids in the order enqueue handed them out (uuidv4 never repeats one)
    pending,    \* pending_operations store: id -> PendingOperation
    sync,       \* per syncToRemote invocation: pc, snapshot, index, the calls issued,
                \* the last remote answer, and how the invocation ended
    lastCall    \* the API call that produced the current state, with its result

syncVars == <<now, enqSeq, pending, sync, lastCall>>

VARIABLES
    isOnline,     \* useNetworkStatus().isOnline
    uploadQueue,  \* pending_uploads store: id -> UploadTask
    taskIds,      \* uuids handed out to upload tasks so far
    remote,       \* objects in remote storage: <<bucket, path>>
    drain,        \* per processUploadQueue invocation: pc, snapshot, index
    fails,        \* per task id: uploads of it that failed in processUploadQueue
    lastStep,     \* what the step that produced the current state did
    batch         \* the uploadFiles call in progress: arguments, captured isOnline,
                  \* position, paths collected, and what was done for each file

uploadVars == <<isOnline, uploadQueue, taskIds, remote, drain, fails, lastStep, batch>>

VARIABLES
    cache,        \* IndexedDBStorage: the cached session, user, profile, organization
    authCall,     \* the AuthService call that produced the current state
    localStorage  \* window.localStorage: the item stored_license_key, or "null"
authVars == <<cache, authCall, localStorage>>

VARIABLES
    localTable,   \* IndexedDBStorage: the rows of one synced table, by primary key
    lastPull      \* the syncFromRemote call that produced the current state
pullVars == <<localTable, lastPull>>

VARIABLES
    ctx,          \* AuthProvider: React state, fetchSession's position, and
                  \* whether the effect on [user] is due
    webStorage,   \* window.localStorage: items supabaseSession and userDetails
    fetches,      \* fetchUserDetails requests: position, the user each was
                  \* started for, the profile row once fetched
    mounts        \* times the provider has been mounted
ctxVars == <<ctx, webStorage, fetches, mounts>>

NoCall == [name |-> "none"]

\* ------------------------------------------------- pending_operations store
Range(s) == { s[k] : k \in DOMAIN s }

\* Position of a record in the ordered read: by timestamp, ties by primary key.
Before(a, b) ==
    \/ a.timestamp < b.timestamp
    \/ a.timestamp = b.timestamp /\ a.id < b.id

RECURSIVE SortOps(_)
SortOps(S) ==
    IF S = {} THEN << >>
    ELSE LET m == CHOOSE a \in S : \A b \in S \ {a} : Before(a, b)
         IN  <<m>> \o SortOps(S \ {m})

getPendingOperationsOrderedByTimestamp(store) ==
    SortOps({ store[k] : k \in DOMAIN store })

addPendingOperation(store, op) ==
    [k \in DOMAIN store \cup {op.id} |-> IF k = op.id THEN op ELSE store[k]]

deletePendingOperation(store, id) ==
    [k \in DOMAIN store \ {id} |-> store[k]]

\* ------------------------------------------------------------ OperationQueue
\* enqueue: id: uuidv4(), ...operation, timestamp: Date.now(), retryCount: 0
queuedOperation_retried(intent, id, t) ==
    [id |-> id, type |-> intent.type, table |-> intent.table, data |-> intent.data,
     timestamp |-> t, retryCount |-> 1]

queuedOperation(intent, id, t) ==
    [id |-> id, type |-> intent.type, table |-> intent.table, data |-> intent.data,
     timestamp |-> t, retryCount |-> 0]

Enqueue(intent, id) ==
    /\ id \in OpIds \ Range(enqSeq)
    /\ enqSeq' = Append(enqSeq, id)
    /\ pending' = addPendingOperation(pending, queuedOperation(intent, id, now))
    /\ lastCall' = [name |-> "enqueue", intent |-> intent, id |-> id]
    /\ UNCHANGED <<now, sync, uploadVars, authVars, pullVars, ctxVars>>

dequeueResult_last(operations) ==
    IF Len(operations) > 0 THEN operations[Len(operations)] ELSE Null

dequeueStore_shift(store) ==
    LET operations == getPendingOperationsOrderedByTimestamp(store)
    IN  IF Len(operations) > 0 THEN deletePendingOperation(store, operations[1].id)
        ELSE store

\* dequeue: operations.length > 0 ? operations[0] : null
dequeueResult(operations) ==
    IF Len(operations) > 0 THEN operations[1] ELSE Null

\* dequeue reads the store and writes nothing to it
dequeueStore(store) == store

Dequeue ==
    /\ lastCall' = [name |-> "dequeue",
                    ret |-> dequeueResult(getPendingOperationsOrderedByTimestamp(pending))]
    /\ pending' = dequeueStore(pending)
    /\ UNCHANGED <<now, enqSeq, sync, uploadVars, authVars, pullVars, ctxVars>>

Remove_strict(id) ==
    /\ pending' = deletePendingOperation(pending, id)
    /\ lastCall' = [name |-> "remove", id |-> id, present |-> id \in DOMAIN pending,
                    threw |-> id \notin DOMAIN pending]
    /\ UNCHANGED <<now, enqSeq, sync, uploadVars, authVars, pullVars, ctxVars>>

\* remove: deletePendingOperation(operationId); any id, present, removed or never used
Remove(id) ==
    /\ pending' = deletePendingOperation(pending, id)
    /\ lastCall' = [name |-> "remove", id |-> id, present |-> id \in DOMAIN pending,
                    threw |-> FALSE]
    /\ UNCHANGED <<now, enqSeq, sync, uploadVars, authVars, pullVars, ctxVars>>

\* private readonly MAX_RETRIES = 3
MAX_RETRIES == 3

MaxRetryCount == 4     \* updateRetryCount is not called beyond this retryCount

\* IndexedDBStorage.updatePendingOperation: a put under the operation's id
updatePendingOperation(store, op) ==
    [k \in DOMAIN store \cup {op.id} |-> IF k = op.id THEN op ELSE store[k]]

shouldRetry_atMost(operation) == operation.retryCount <= MAX_RETRIES

\* shouldRetry: operation.retryCount < this.MAX_RETRIES
shouldRetry(operation) == operation.retryCount < MAX_RETRIES

\* updateRetryCount: { ...operation, retryCount: operation.retryCount + 1 }
updatedOperation(operation) == [operation EXCEPT !.retryCount = @ + 1]

\* The operation objects a caller can hold: an operation as dequeue returned
\* it now or before an earlier updateRetryCount.
HeldOperations ==
    UNION { { [pending[id] EXCEPT !.retryCount = r] : r \in 0..pending[id].retryCount }
            : id \in DOMAIN pending }

\* shouldRetry(operation)
ShouldRetry(operation) ==
    /\ lastCall' = [name |-> "shouldRetry", id |-> operation.id,
                    operation |-> operation, ret |-> shouldRetry(operation)]
    /\ UNCHANGED <<now, enqSeq, pending, sync, uploadVars, authVars, pullVars, ctxVars>>

\* updateRetryCount(operation). run counts the calls made in a row for one
\* id, each after the first passed the operation as it was stored, and from
\* is the retryCount of the operation passed to the first of them.
UpdateRetryCount(operation) ==
    /\ operation.retryCount < MaxRetryCount
    /\ pending' = updatePendingOperation(pending, updatedOperation(operation))
    /\ lastCall' =
          LET again == /\ lastCall.name = "updateRetryCount"
                       /\ lastCall.id = operation.id
                       /\ operation = pending[operation.id]
          IN  [name |-> "updateRetryCount", id |-> operation.id,
               operation |-> operation,
               run |-> IF again THEN lastCall.run + 1 ELSE 1,
               from |-> IF again THEN lastCall.from ELSE operation.retryCount]
    /\ UNCHANGED <<now, enqSeq, sync, uploadVars, authVars, pullVars, ctxVars>>

Tick ==
    /\ now < MaxClock
    /\ now' = now + 1
    /\ lastCall' = NoCall
    /\ UNCHANGED <<enqSeq, pending, sync, uploadVars, authVars, pullVars, ctxVars>>

\* --------------------------------------------------------------- SyncService
\* BaseService.handleError(error, message): logs and rethrows to the caller.
handleError == "threw"

createRemote_swallow(table, data, ok) == "returned"

\* createRemote / updateRemote / deleteRemote: ok is the remote's answer
\* (error absent or present); the result is how the method ends.
createRemote(table, data, ok) == IF ok THEN "returned" ELSE handleError

updateRemote(table, data, ok) == IF ok THEN "returned" ELSE handleError

deleteRemote(table, id, ok) == IF ok THEN "returned" ELSE handleError

\* switch (op.type) of syncToRemote
dispatch(op, ok) ==
    CASE op.type = "create" -> createRemote(op.table, op.data, ok)
      [] op.type = "update" -> updateRemote(op.table, op.data, ok)
      [] op.type = "delete" -> deleteRemote(op.table, op.data, ok)

loopOp_reversed(pendingOps, i) == pendingOps[Len(pendingOps) - i + 1]

\* for (const op of pendingOps): the operation of the i-th iteration
loopOp(pendingOps, i) == pendingOps[i]

IdleSync == [pc |-> "idle", ops |-> << >>, i |-> 1, issued |-> << >>,
             lastOk |-> TRUE, outcome |-> "none"]

\* syncToRemote is called: read the store, enter the loop (or end on an empty read)
SyncStart(d) ==
    /\ sync[d].pc = "idle"
    /\ LET pendingOps == getPendingOperationsOrderedByTimestamp(pending)
       IN  sync' = [sync EXCEPT ![d] =
                [pc |-> IF Len(pendingOps) = 0 THEN "idle" ELSE "loop",
                 ops |-> pendingOps, i |-> 1, issued |-> << >>, lastOk |-> TRUE,
                 outcome |-> IF Len(pendingOps) = 0 THEN "done" ELSE "running"]]
    /\ lastCall' = NoCall
    /\ UNCHANGED <<now, enqSeq, pending, uploadVars, authVars, pullVars, ctxVars>>

\* one remote call of the loop and its answer; an error thrown by the remote
\* method reaches the catch of syncToRemote, whose handleError ends the call
SyncCall(d, ok) ==
    /\ sync[d].pc = "loop"
    /\ LET op == loopOp(sync[d].ops, sync[d].i)
           r == dispatch(op, ok)
       IN  sync' = [sync EXCEPT ![d].issued = Append(@, op),
                                ![d].lastOk = ok,
                                ![d].pc = IF r = "returned" THEN "delete" ELSE "idle",
                                ![d].outcome = IF r = "returned" THEN "running"
                                               ELSE handleError]
    /\ lastCall' = NoCall
    /\ UNCHANGED <<now, enqSeq, pending, uploadVars, authVars, pullVars, ctxVars>>

\* await this.storage.deletePendingOperation(op.id), then the next iteration
SyncDelete(d) ==
    /\ sync[d].pc = "delete"
    /\ LET op == loopOp(sync[d].ops, sync[d].i)
           last == sync[d].i = Len(sync[d].ops)
       IN  /\ pending' = deletePendingOperation(pending, op.id)
           /\ sync' = [sync EXCEPT ![d].i = @ + 1,
                                   ![d].pc = IF last THEN "idle" ELSE "loop",
                                   ![d].outcome = IF last THEN "done" ELSE "running"]
    /\ lastCall' = NoCall
    /\ UNCHANGED <<now, enqSeq, uploadVars, authVars, pullVars, ctxVars>>

InitSync ==
    /\ now = 1
    /\ enqSeq = << >>
    /\ pending = << >>
    /\ sync = [d \in Syncs |-> IdleSync]
    /\ lastCall = NoCall

\* ======================================================= useStorage: uploads
MaxTasks == 2      \* upload tasks ever queued (ids of tasks)
MaxFails == 5      \* failed queue uploads counted per task

TaskIds == 1..MaxTasks
Drains == {"p1", "p2"}     \* processUploadQueue invocations that may overlap
Files == {"f1", "f2"}
BasePath == "base"


NoStep == [kind |-> "none"]

\* ------------------------------------------------------- utils/uploadQueue
getAllQueuedUploads(store) ==
    LET ids == DOMAIN store
        RECURSIVE ById(_)
        ById(S) == IF S = {} THEN << >>
                   ELSE LET m == CHOOSE a \in S : \A b \in S : a <= b
                        IN  <<store[m]>> \o ById(S \ {m})
    IN  ById(ids)

addToQueue(store, task) ==
    [k \in DOMAIN store \cup {task.id} |-> IF k = task.id THEN task ELSE store[k]]

removeFromQueue(store, id) ==
    [k \in DOMAIN store \ {id} |-> store[k]]

updateQueueItem(store, task) ==
    [k \in DOMAIN store \cup {task.id} |-> IF k = task.id THEN task ELSE store[k]]

\* ------------------------------------------------------------- the hook
\* const path = `${basePath}/${file.name}`
pathOf(basePath, file) == <<basePath, file>>

fileExists_closed(path, listOk) ==
    IF listOk THEN <<"processed-data", path>> \in remote ELSE TRUE

\* fileExists: list(path) in bucket 'processed-data'; an error counts as absent
fileExists(path, listOk) ==
    IF listOk THEN <<"processed-data", path>> \in remote ELSE FALSE

newUploadTask_retried(id, file, path, bucket) ==
    [id |-> id, file |-> file, path |-> path, bucket |-> bucket,
     retries |-> 1, status |-> "queued", progress |-> 0]

\* uploadFiles: the UploadTask it queues
newUploadTask(id, file, path, bucket) ==
    [id |-> id, file |-> file, path |-> path, bucket |-> bucket,
     retries |-> 0, status |-> "queued", progress |-> 0]

\* uploadFiles, one file of the batch: listOk and ok are the remote's answers
UploadOne(file, bucket, id, listOk, ok) ==
    /\ id \in TaskIds \ taskIds
    /\ LET path == pathOf(BasePath, file)
           task == newUploadTask(id, file, path, bucket)
       IN  IF isOnline
           THEN IF fileExists(path, listOk)
                THEN /\ lastStep' = [kind |-> "uploadFiles", note |-> "skipped", path |-> path]
                     /\ UNCHANGED <<uploadQueue, taskIds, remote>>
                ELSE IF ok
                     THEN /\ remote' = remote \cup {<<bucket, path>>}
                          /\ lastStep' = [kind |-> "uploadFiles", note |-> "uploaded",
                                          path |-> path]
                          /\ UNCHANGED <<uploadQueue, taskIds>>
                     ELSE /\ uploadQueue' = addToQueue(uploadQueue, task)
                          /\ taskIds' = taskIds \cup {id}
                          /\ lastStep' = [kind |-> "uploadFiles", note |-> "queued",
                                          path |-> path]
                          /\ UNCHANGED remote
           ELSE /\ uploadQueue' = addToQueue(uploadQueue, task)
                /\ taskIds' = taskIds \cup {id}
                /\ lastStep' = [kind |-> "uploadFiles", note |-> "queuedOffline", path |-> path]
                /\ UNCHANGED remote
    /\ UNCHANGED <<isOnline, drain, fails, batch, syncVars, authVars, pullVars, ctxVars>>

IdleDrain == [pc |-> "idle", tasks |-> << >>, i |-> 1]

IdleBatch == [pc |-> "idle", files |-> << >>, bucket |-> "processed-data",
              online |-> TRUE, i |-> 1, paths |-> << >>, log |-> << >>]

shouldRequeue_always(retries) == TRUE

shouldRequeue_two(retries) == retries < 2

shouldRequeue_four(retries) == retries < 4

\* if (retries < 3): the failed task is written back with retries + 1
shouldRequeue(retries) == retries < 3

\* the network goes offline; a drain in progress is not told
GoOffline ==
    /\ isOnline
    /\ isOnline' = FALSE
    /\ lastStep' = NoStep
    /\ UNCHANGED <<uploadQueue, taskIds, remote, drain, fails, batch, syncVars, authVars, pullVars, ctxVars>>

onlineGuard_always(online) == TRUE

onlineGuard_never(online) == FALSE

\* if (!isOnline) return, read the other way round: the call goes on
onlineGuard(online) == online

\* processUploadQueue up to its first remote call: the online guard, then the
\* read of the whole queue; an empty queue ends the call at once
processUploadQueueStart(online, store) ==
    LET queuedUploads == getAllQueuedUploads(store)
    IN  IF ~onlineGuard(online) \/ Len(queuedUploads) = 0 THEN IdleDrain
        ELSE [pc |-> "check", tasks |-> queuedUploads, i |-> 1]

\* processUploadQueue is called while the status is offline
ProcCallOffline(p) ==
    /\ ~isOnline
    /\ drain[p].pc = "idle"
    /\ drain' = [drain EXCEPT ![p] = processUploadQueueStart(isOnline, uploadQueue)]
    /\ lastStep' = [kind |-> "processCall", note |-> "offline"]
    /\ UNCHANGED <<isOnline, uploadQueue, taskIds, remote, fails, batch, syncVars, authVars, pullVars, ctxVars>>

\* the network comes back: the effect on isOnline calls processUploadQueue, which
\* passes its online check and reads the queue
GoOnline(p) ==
    /\ ~isOnline
    /\ drain[p].pc = "idle"
    /\ isOnline' = TRUE
    /\ drain' = [drain EXCEPT ![p] = processUploadQueueStart(TRUE, uploadQueue)]
    /\ lastStep' = NoStep
    /\ UNCHANGED <<uploadQueue, taskIds, remote, fails, batch, syncVars, authVars, pullVars, ctxVars>>

advance_end(dr) == IdleDrain

advance_repeat(dr) == [dr EXCEPT !.pc = "check"]

\* the position after the task at index i of the snapshot
advance(dr) ==
    IF dr.i = Len(dr.tasks) THEN IdleDrain
    ELSE [dr EXCEPT !.i = @ + 1, !.pc = "check"]

\* const exists = await fileExists(path); if (exists) { removeFromQueue; continue }
ProcCheck(p, listOk) ==
    /\ drain[p].pc = "check"
    /\ LET uploadTask == drain[p].tasks[drain[p].i]
       IN  IF fileExists(uploadTask.path, listOk)
           THEN /\ uploadQueue' = removeFromQueue(uploadQueue, uploadTask.id)
                /\ drain' = [drain EXCEPT ![p] = advance(@)]
                /\ lastStep' = [kind |-> "check", id |-> uploadTask.id,
                                note |-> "exists", listOk |-> listOk]
           ELSE /\ drain' = [drain EXCEPT ![p].pc = "upload"]
                /\ lastStep' = [kind |-> "check", id |-> uploadTask.id,
                                note |-> "absent", listOk |-> listOk]
                /\ UNCHANGED uploadQueue
    /\ UNCHANGED <<isOnline, taskIds, remote, fails, batch, syncVars, authVars, pullVars, ctxVars>>

\* try { await uploadFile(..); removeFromQueue } catch { retry accounting }
ProcUpload(p, ok) ==
    /\ drain[p].pc = "upload"
    /\ LET uploadTask == drain[p].tasks[drain[p].i]
           id == uploadTask.id
           retries == uploadTask.retries
       IN  /\ ok \/ fails[id] < MaxFails
           /\ IF ok
              THEN /\ remote' = remote \cup {<<uploadTask.bucket, uploadTask.path>>}
                   /\ uploadQueue' = removeFromQueue(uploadQueue, id)
                   /\ fails' = fails
                   /\ lastStep' = [kind |-> "upload", id |-> id, retries |-> retries,
                                   ok |-> TRUE, note |-> "success"]
              ELSE /\ remote' = remote
                   /\ fails' = [fails EXCEPT ![id] = @ + 1]
                   /\ IF shouldRequeue(retries)
                      THEN /\ uploadQueue' = updateQueueItem(uploadQueue,
                                    [uploadTask EXCEPT !.retries = retries + 1])
                           /\ lastStep' = [kind |-> "upload", id |-> id, retries |-> retries,
                                           ok |-> FALSE, note |-> "retrying"]
                      ELSE /\ uploadQueue' = removeFromQueue(uploadQueue, id)
                           /\ lastStep' = [kind |-> "upload", id |-> id, retries |-> retries,
                                           ok |-> FALSE, note |-> "maxRetries"]
    /\ drain' = [drain EXCEPT ![p] = advance(@)]
    /\ UNCHANGED <<isOnline, taskIds, batch, syncVars, authVars, pullVars, ctxVars>>

\* ------------------------------------------------ uploadFiles, a whole batch
MaxBatch == 2      \* files in one uploadFiles call

Buckets == {"processed-data", "raw-data"}

\* the file lists a caller may pass: 1..MaxBatch files, repeats allowed
FileLists == UNION { [1..n -> Files] : n \in 1..MaxBatch }

closureOnline_live(captured, live) == live

\* if (isOnline) inside uploadFiles reads the value the callback was created
\* with, not the status at the time the file is reached
closureOnline(captured, live) == captured

skipPush_none(paths, path) == paths

\* paths.push(path) of the already-exists branch
skipPush(paths, path) == Append(paths, path)

\* uploadFiles(files, basePath, bucket) is called on the callback of the
\* current render
UploadFilesCall(files, bucket) ==
    /\ batch.pc # "run"
    /\ batch' = [pc |-> "run", files |-> files, bucket |-> bucket, online |-> isOnline,
                 i |-> 1, paths |-> << >>, log |-> << >>]
    /\ lastStep' = [kind |-> "uploadFilesCall", note |-> "called"]
    /\ UNCHANGED <<isOnline, uploadQueue, taskIds, remote, drain, fails, syncVars, authVars, pullVars, ctxVars>>

\* what one iteration did: the remote calls made, their answers, the task queued
LogEntry(listCalled, listOk, exists, upCalled, upOk, task) ==
    [listCalled |-> listCalled, listOk |-> listOk, exists |-> exists,
     upCalled |-> upCalled, upOk |-> upOk, task |-> task]

\* one iteration of for (const file of files); after the last one the call
\* returns paths
UploadFilesStep(id, listOk, ok) ==
    /\ batch.pc = "run"
    /\ LET file == batch.files[batch.i]
           path == pathOf(BasePath, file)
           task == newUploadTask(id, file, path, batch.bucket)
           exists == fileExists(path, listOk)
           pc2 == IF batch.i = Len(batch.files) THEN "done" ELSE "run"
           step(paths, entry) ==
               [batch EXCEPT !.pc = pc2, !.i = @ + 1, !.paths = paths,
                             !.log = Append(@, entry)]
       IN  IF closureOnline(batch.online, isOnline)
           THEN IF exists
                THEN /\ ok
                     /\ batch' = step(skipPush(batch.paths, path),
                                      LogEntry(TRUE, listOk, TRUE, FALSE, FALSE, Null))
                     /\ lastStep' = [kind |-> "uploadFiles", note |-> "skipped",
                                     path |-> path]
                     /\ UNCHANGED <<uploadQueue, taskIds, remote>>
                ELSE IF ok
                     THEN /\ remote' = remote \cup {<<batch.bucket, path>>}
                          /\ batch' = step(Append(batch.paths, path),
                                           LogEntry(TRUE, listOk, FALSE, TRUE, TRUE, Null))
                          /\ lastStep' = [kind |-> "uploadFiles", note |-> "uploaded",
                                          path |-> path]
                          /\ UNCHANGED <<uploadQueue, taskIds>>
                     ELSE /\ id \in TaskIds \ taskIds
                          /\ uploadQueue' = addToQueue(uploadQueue, task)
                          /\ taskIds' = taskIds \cup {id}
                          /\ batch' = step(Append(batch.paths, path),
                                           LogEntry(TRUE, listOk, FALSE, TRUE, FALSE, task))
                          /\ lastStep' = [kind |-> "uploadFiles", note |-> "queued",
                                          path |-> path]
                          /\ UNCHANGED remote
           ELSE /\ listOk /\ ok
                /\ id \in TaskIds \ taskIds
                /\ uploadQueue' = addToQueue(uploadQueue, task)
                /\ taskIds' = taskIds \cup {id}
                /\ batch' = step(Append(batch.paths, path),
                                 LogEntry(FALSE, FALSE, FALSE, FALSE, FALSE, task))
                /\ lastStep' = [kind |-> "uploadFiles", note |-> "queuedOffline",
                                path |-> path]
                /\ UNCHANGED remote
    /\ UNCHANGED <<isOnline, drain, fails, syncVars, authVars, pullVars, ctxVars>>

InitUpload ==
    /\ isOnline = TRUE
    /\ uploadQueue = << >>
    /\ taskIds = {}
    /\ remote = {}
    /\ drain = [p \in Drains |-> IdleDrain]
    /\ fails = [id \in TaskIds |-> 0]
    /\ lastStep = NoStep
    /\ batch = IdleBatch

NextUpload ==
    \/ \E file \in Files, bucket \in {"processed-data"}, id \in TaskIds,
          listOk \in BOOLEAN,
          ok \in BOOLEAN : UploadOne(file, bucket, id, listOk, ok)
    \/ GoOffline
    \/ \E p \in {"p1"} : GoOnline(p)
    \/ \E p \in {"p1"} : ProcCallOffline(p)
    \/ \E p \in {"p1"}, listOk \in BOOLEAN : ProcCheck(p, listOk)
    \/ \E p \in {"p1"}, ok \in BOOLEAN : ProcUpload(p, ok)

\* ================================================================ AuthService
Threw == [threw |-> TRUE]              \* the call rejected
RemoteError == [error |-> TRUE]        \* the remote answered with an error

\* sessions, told apart by expires_at; 0 stands for a session without one
Sessions == [access_token : {"t"}, expires_at : 0..MaxClock]

\* users as the remote holds them; "undefined" is a field that is not set
RemoteUsers == [id : {"u1"}, email : {"undefined", "a@x"}, last_sign_in_at : {"undefined"}]

Versions == {"v1", "v2"}
UserProfiles == [id : {"u1"}, version : Versions, organization_id : {"none", "o1"}]
Organizations == [id : {"o1"}, version : Versions]

\* sessions the remote hands out at the present time: not yet expired
FreshSessions == { s \in Sessions : s.expires_at > now }

\* const currentUser: User = { id, email: user.email || '', last_sign_in_at: ... || null }
toUser(user) ==
    [id |-> user.id,
     email |-> IF user.email = "undefined" THEN "" ELSE user.email,
     last_sign_in_at |-> IF user.last_sign_in_at = "undefined" THEN "null"
                         ELSE user.last_sign_in_at]

\* ------------------------------------------------------ IndexedDBStorage
EmptyCache == [session |-> Null, user |-> Null, profile |-> Null, org |-> Null]

saveSession_skip(c, session) == c

saveSession(c, session) == [c EXCEPT !.session = session]
removeSession(c) == [c EXCEPT !.session = Null]
saveUser(c, user) == [c EXCEPT !.user = user]
saveUserProfile(c, profile) == [c EXCEPT !.profile = profile]
saveOrganization(c, org) == [c EXCEPT !.org = org]

\* --------------------------------------------------------------- the calls
NoFetch == [session |-> Null, user |-> Null, profile |-> Null, org |-> Null]

NoAuthCall == [name |-> "none"]

\* the record of a call: the remote's answer (given or not asked for), the
\* cached value it found, the clock, whether the remote was asked, what was
\* fetched from it, and what the caller got
AuthCall(name, answer, local, remoteCalled, fetched, result) ==
    [name |-> name, answer |-> answer, local |-> local, at |-> now,
     remoteCalled |-> remoteCalled, fetched |-> fetched, result |-> result]

\* getSession: remote first; on an error or no session, whatever is cached
getSession(answer) ==
    /\ IF answer \in {RemoteError, Null}
       THEN /\ authCall' = AuthCall("getSession", answer, cache.session, TRUE,
                                    NoFetch, cache.session)
            /\ cache' = cache
       ELSE /\ cache' = saveSession(cache, answer)
            /\ authCall' = AuthCall("getSession", answer, cache.session, TRUE,
                                    [NoFetch EXCEPT !.session = answer], answer)
    /\ UNCHANGED <<localStorage, syncVars, uploadVars, pullVars, ctxVars>>

\* getCurrentUser: remote first; on an error or no user, whatever is cached
getCurrentUser(answer) ==
    /\ IF answer \in {RemoteError, Null}
       THEN /\ authCall' = AuthCall("getCurrentUser", answer, cache.user, TRUE,
                                    NoFetch, cache.user)
            /\ cache' = cache
       ELSE /\ cache' = saveUser(cache, toUser(answer))
            /\ authCall' = AuthCall("getCurrentUser", answer, cache.user, TRUE,
                                    [NoFetch EXCEPT !.user = answer], toUser(answer))
    /\ UNCHANGED <<localStorage, syncVars, uploadVars, pullVars, ctxVars>>

\* getLocalSession: the cached session if it has an expires_at in the future;
\* an expired one is removed
getLocalSession ==
    /\ LET session == cache.session
       IN  IF session # Null /\ session.expires_at # 0
           THEN IF session.expires_at > now
                THEN /\ cache' = cache
                     /\ authCall' = AuthCall("getLocalSession", Null, session, FALSE,
                                             NoFetch, session)
                ELSE /\ cache' = removeSession(cache)
                     /\ authCall' = AuthCall("getLocalSession", Null, session, FALSE,
                                             NoFetch, Null)
           ELSE /\ cache' = cache
                /\ authCall' = AuthCall("getLocalSession", Null, session, FALSE,
                                        NoFetch, Null)
    /\ UNCHANGED <<localStorage, syncVars, uploadVars, pullVars, ctxVars>>

\* getLocalUser
getLocalUser ==
    /\ authCall' = AuthCall("getLocalUser", Null, cache.user, FALSE, NoFetch, cache.user)
    /\ cache' = cache
    /\ UNCHANGED <<localStorage, syncVars, uploadVars, pullVars, ctxVars>>

\* getUserProfile on cache c: "Try local first", then the remote, whose row
\* is saved; an error or a missing row is thrown
userProfileRead(c, answer) ==
    IF c.profile # Null
    THEN [cache |-> c, result |-> c.profile, remoteCalled |-> FALSE, fetched |-> Null]
    ELSE IF answer \in {RemoteError, Null}
         THEN [cache |-> c, result |-> Threw, remoteCalled |-> TRUE, fetched |-> Null]
         ELSE [cache |-> saveUserProfile(c, answer), result |-> answer,
               remoteCalled |-> TRUE, fetched |-> answer]

\* getOrganization on cache c: the same shape as getUserProfile
organizationRead(c, answer) ==
    IF c.org # Null
    THEN [cache |-> c, result |-> c.org, remoteCalled |-> FALSE, fetched |-> Null]
    ELSE IF answer \in {RemoteError, Null}
         THEN [cache |-> c, result |-> Threw, remoteCalled |-> TRUE, fetched |-> Null]
         ELSE [cache |-> saveOrganization(c, answer), result |-> answer,
               remoteCalled |-> TRUE, fetched |-> answer]

getUserProfile(answer) ==
    /\ LET r == userProfileRead(cache, answer)
       IN  /\ cache' = r.cache
           /\ authCall' = AuthCall("getUserProfile", answer, cache.profile, r.remoteCalled,
                                   [NoFetch EXCEPT !.profile = r.fetched], r.result)
    /\ UNCHANGED <<localStorage, syncVars, uploadVars, pullVars, ctxVars>>

getOrganization(answer) ==
    /\ LET r == organizationRead(cache, answer)
       IN  /\ cache' = r.cache
           /\ authCall' = AuthCall("getOrganization", answer, cache.org, r.remoteCalled,
                                   [NoFetch EXCEPT !.org = r.fetched], r.result)
    /\ UNCHANGED <<localStorage, syncVars, uploadVars, pullVars, ctxVars>>

\* signIn: auth is the answer of signInWithPassword (an error, or a session
\* and a user); profileAnswer and orgAnswer are what the two tables would
\* answer if asked
signIn(auth, profileAnswer, orgAnswer) ==
    /\ IF auth = RemoteError
       THEN /\ cache' = cache
            /\ authCall' = AuthCall("signIn", auth, Null, TRUE, NoFetch, Threw)
       ELSE LET user == toUser(auth.user)
                c1 == saveUser(saveSession(cache, auth.session), user)
                f1 == [NoFetch EXCEPT !.session = auth.session, !.user = auth.user]
                p == userProfileRead(c1, profileAnswer)
            IN  IF p.result = Threw
                THEN /\ cache' = p.cache
                     /\ authCall' = AuthCall("signIn", auth, Null, TRUE, f1, Threw)
                ELSE LET f2 == [f1 EXCEPT !.profile = p.fetched]
                         o == IF p.result.organization_id # "none"
                              THEN organizationRead(p.cache, orgAnswer)
                              ELSE [cache |-> p.cache, result |-> Null,
                                    remoteCalled |-> FALSE, fetched |-> Null]
                     IN  IF o.result = Threw
                         THEN /\ cache' = o.cache
                              /\ authCall' = AuthCall("signIn", auth, Null, TRUE, f2, Threw)
                         ELSE /\ cache' =
                                   LET c3 == saveUserProfile(o.cache, p.result)
                                   IN  IF o.result # Null
                                       THEN saveOrganization(c3, o.result) ELSE c3
                              /\ authCall' = AuthCall("signIn", auth, Null, TRUE,
                                       [f2 EXCEPT !.org = o.fetched],
                                       [user |-> user, profile |-> p.result,
                                        organization |-> o.result])
    /\ UNCHANGED <<localStorage, syncVars, uploadVars, pullVars, ctxVars>>

\* ------------------------------------------------- signUp and signOut
\* rows of license_keys as the remote answers with them
LicenseRows == [key : {"k1"}, is_active : BOOLEAN]

licenseValid_any(licenseData) == licenseData \notin {RemoteError, Null}

\* signUp's two checks: the row was found, and it is active
licenseValid(licenseData) ==
    /\ licenseData \notin {RemoteError, Null}
    /\ licenseData.is_active

\* signUp(email, password, licenseKey): licenseData is the answer of the
\* license_keys lookup, ok whether supabase.auth.signUp would succeed
signUp(licenseData, ok) ==
    /\ IF licenseValid(licenseData)
       THEN /\ localStorage' = "k1"
            /\ authCall' = AuthCall("signUp", licenseData, Null, TRUE, NoFetch,
                                    IF ok THEN Null ELSE Threw)
       ELSE /\ localStorage' = localStorage
            /\ authCall' = AuthCall("signUp", licenseData, Null, FALSE, NoFetch, Threw)
    /\ cache' = cache
    /\ UNCHANGED <<syncVars, uploadVars, pullVars, ctxVars>>

signOutCache_always(c, ok) == EmptyCache

\* what signOut leaves of the local store: cleared after a successful remote
\* sign-out, untouched when the remote answered with an error
signOutCache(c, ok) == IF ok THEN EmptyCache ELSE c

\* signOut: ok is whether supabase.auth.signOut succeeds
signOut(ok) ==
    /\ cache' = signOutCache(cache, ok)
    /\ localStorage' = (IF ok THEN "null" ELSE localStorage)
    /\ authCall' = AuthCall("signOut", IF ok THEN Null ELSE RemoteError, cache, TRUE,
                            NoFetch, IF ok THEN Null ELSE Threw)
    /\ UNCHANGED <<syncVars, uploadVars, pullVars, ctxVars>>

InitAuth ==
    /\ cache = EmptyCache
    /\ authCall = NoAuthCall
    /\ localStorage = "null"

\* ============================================== SyncService.syncFromRemote
RowIds == {"r1", "r2", "r3"}     \* primary keys of the rows of one table

\* what the select can return: any set of rows, each with some contents
RowSets == UNION { [S -> Versions] : S \in SUBSET RowIds }

\* IndexedDBStorage.bulkSave(table, data): a put per row, by primary key
bulkSave(store, data) ==
    [k \in DOMAIN store \cup DOMAIN data |->
        IF k \in DOMAIN data THEN data[k] ELSE store[k]]

syncedTable_prune(store, data) ==
    IF data = RemoteError THEN store ELSE data

\* the local table after syncFromRemote: if (error) throw error;
\* if (data?.length) await this.storage.bulkSave(table, data)
syncedTable(store, data) ==
    IF data = RemoteError THEN store
    ELSE IF Cardinality(DOMAIN data) > 0 THEN bulkSave(store, data)
    ELSE store

NoPull == [name |-> "none"]

\* syncFromRemote(table, orgId, since): data is what the query answers, the
\* rows that pass its filters or an error
syncFromRemote(data) ==
    /\ localTable' = syncedTable(localTable, data)
    /\ lastPull' = [name |-> "syncFromRemote", before |-> localTable, data |-> data,
                    outcome |-> IF data = RemoteError THEN handleError ELSE "done"]
    /\ UNCHANGED <<syncVars, uploadVars, authVars, ctxVars>>

InitPull ==
    /\ localTable = << >>
    /\ lastPull = NoPull

\* ================================================================ AuthContext
MaxMounts == 2       \* times the provider is mounted (application starts)
MaxFetches == 2      \* fetchUserDetails requests started per mount

CtxUsers == {[id |-> "u1"]}
CtxSessions == [user : CtxUsers]
FetchIds == 1..MaxFetches

\* JSON.stringify of a session or of null, and JSON.parse of the stored string
stringify(value) ==
    IF value = Null THEN [text |-> "null"] ELSE [text |-> "object", json |-> value]

parse(item) == IF item.text = "null" THEN Null ELSE item.json

\* if (cachedSession): getItem answers null for an absent key, and every
\* stored string here is non-empty
truthy(item) == item # Null

\* const userTierMap; userTierMap[tier] || 0
userTierMap(tier) ==
    CASE tier = "admin" -> 3
      [] tier = "lead" -> 2
      [] tier = "researcher" -> 1
      [] OTHER -> 0

\* rows the remote answers with
ProfileRows == [user_tier : {"admin", "guest"}, organization_id : {"o1"}]
OrganizationRows == [id : {"o1"}, name : {"Org", ""}, org_short_id : {"ORG"}]

\* null and undefined in a state field of type string | null
NullString == "(null)"
UndefinedString == "(undefined)"

\* value || null
orNull(value) == IF value = "" THEN NullString ELSE value

\* useState initial values (lines 32-39)
NoDetails == [userTier |-> "none", userLevel |-> 0, userOrg |-> NullString,
              userOrgId |-> NullString, userOrgShortId |-> NullString]

IdleFetch == [pc |-> "idle", user |-> Null, userProfile |-> Null]

\* the provider's state before it is mounted, and right after mounting
Unmounted ==
    [mounted |-> FALSE, user |-> Null, details |-> NoDetails, loading |-> TRUE,
     errorMessage |-> "", fetchSession |-> "none", effectDue |-> FALSE]

\* setUser(value): the effect on [user] is due when the value changed
setUser(c, value) ==
    [c EXCEPT !.user = value, !.effectDue = @ \/ (value # c.user)]

\* the offline branch of fetchSession (lines 43-55): session.user of a parsed
\* null throws a TypeError outside any try, before setLoading(false)
fetchSessionOffline(c, cachedSession) ==
    IF truthy(cachedSession)
    THEN LET session == parse(cachedSession)
         IN  IF session = Null
             THEN [c EXCEPT !.fetchSession = "threw"]
             ELSE [setUser(c, session.user) EXCEPT !.loading = FALSE,
                                                   !.fetchSession = "returned"]
    ELSE [setUser(c, Null) EXCEPT !.loading = FALSE, !.fetchSession = "returned"]

\* the provider is mounted (application start): state is initial, fetchSession
\* runs up to its first await, and the effect on [user] is due
Mount(online) ==
    /\ ~ctx.mounted
    /\ mounts < MaxMounts
    /\ mounts' = mounts + 1
    /\ LET c == [Unmounted EXCEPT !.mounted = TRUE, !.effectDue = TRUE]
       IN  ctx' = IF online THEN [c EXCEPT !.fetchSession = "awaiting"]
                  ELSE fetchSessionOffline(c, webStorage.supabaseSession)
    /\ fetches' = [f \in FetchIds |-> IdleFetch]
    /\ UNCHANGED <<webStorage, syncVars, uploadVars, authVars, pullVars>>

\* the application is closed: React state and requests in flight are gone,
\* window.localStorage stays
Unmount ==
    /\ ctx.mounted
    /\ ctx' = Unmounted
    /\ fetches' = [f \in FetchIds |-> IdleFetch]
    /\ UNCHANGED <<mounts, webStorage, syncVars, uploadVars, authVars, pullVars>>

\* supabase.auth.getSession() settles (lines 57-72): answer is "throws" or
\* the session (null or not), with or without an error beside it
SessionSettles(answer) ==
    /\ ctx.mounted
    /\ ctx.fetchSession = "awaiting"
    /\ IF answer = Threw
       THEN /\ ctx' = [ctx EXCEPT !.loading = FALSE, !.fetchSession = "returned"]
            /\ UNCHANGED webStorage
       ELSE /\ ctx' = [setUser(ctx, IF answer = Null THEN Null ELSE answer.user)
                          EXCEPT !.loading = FALSE, !.fetchSession = "returned"]
            /\ webStorage' = [webStorage EXCEPT !.supabaseSession = stringify(answer)]
    /\ UNCHANGED <<mounts, fetches, syncVars, uploadVars, authVars, pullVars>>

\* the onAuthStateChange listener (lines 77-84)
AuthStateChange(session) ==
    /\ ctx.mounted
    /\ ctx' = setUser(ctx, IF session = Null THEN Null ELSE session.user)
    /\ webStorage' = [webStorage EXCEPT !.supabaseSession = stringify(session)]
    /\ UNCHANGED <<mounts, fetches, syncVars, uploadVars, authVars, pullVars>>

\* the effect on [user] runs fetchUserDetails up to its first await (91-122)
FetchUserDetails(online) ==
    /\ ctx.mounted
    /\ ctx.effectDue
    /\ IF ctx.user = Null
       THEN /\ ctx' = [ctx EXCEPT !.details = NoDetails, !.effectDue = FALSE]
            /\ UNCHANGED fetches
       ELSE IF ~online
       THEN LET cachedUserDetails == webStorage.userDetails
            IN  /\ ctx' = IF truthy(cachedUserDetails)
                          THEN LET data == parse(cachedUserDetails)
                               IN  [ctx EXCEPT !.effectDue = FALSE,
                                       !.details = [userTier |-> data.userTier,
                                                    userLevel |-> data.userLevel,
                                                    userOrg |-> UndefinedString,
                                                    userOrgId |-> UndefinedString,
                                                    userOrgShortId |-> UndefinedString]]
                          ELSE [ctx EXCEPT !.effectDue = FALSE]
                /\ UNCHANGED fetches
       ELSE /\ \E f \in FetchIds :
                  /\ fetches[f].pc = "idle"
                  /\ \A g \in FetchIds : g < f => fetches[g].pc # "idle"
                  /\ fetches' = [fetches EXCEPT ![f] =
                        [pc |-> "profile", user |-> ctx.user, userProfile |-> Null]]
            /\ ctx' = [ctx EXCEPT !.effectDue = FALSE]
    /\ UNCHANGED <<mounts, webStorage, syncVars, uploadVars, authVars, pullVars>>

\* the user_profiles query of request f settles (118-127): an error returns,
\* a null row makes userProfile.organization_id throw into the catch (166-173)
ProfileSettles(f, answer) ==
    /\ ctx.mounted
    /\ fetches[f].pc = "profile"
    /\ IF answer = RemoteError
       THEN /\ fetches' = [fetches EXCEPT ![f].pc = "done"]
            /\ UNCHANGED ctx
       ELSE IF answer \in {Threw, Null}
       THEN /\ fetches' = [fetches EXCEPT ![f].pc = "done"]
            /\ ctx' = [ctx EXCEPT !.details = NoDetails]
       ELSE /\ fetches' = [fetches EXCEPT ![f].pc = "org", ![f].userProfile = answer]
            /\ UNCHANGED ctx
    /\ UNCHANGED <<mounts, webStorage, syncVars, uploadVars, authVars, pullVars>>

\* lines 150-155: the setters are called with the fetched rows whatever the
\* user is by now
detailsOf(userProfile, organization) ==
    [userTier |-> userProfile.user_tier,
     userLevel |-> userTierMap(userProfile.user_tier),
     userOrg |-> orNull(organization.name),
     userOrgId |-> orNull(organization.id),
     userOrgShortId |-> orNull(organization.org_short_id)]

\* the organization query of request f settles (129-173)
OrganizationSettles(f, answer) ==
    /\ ctx.mounted
    /\ fetches[f].pc = "org"
    /\ fetches' = [fetches EXCEPT ![f].pc = "done"]
    /\ IF answer = RemoteError
       THEN UNCHANGED <<ctx, webStorage>>
       ELSE IF answer \in {Threw, Null}
       THEN /\ ctx' = [ctx EXCEPT !.details = NoDetails]
            /\ UNCHANGED webStorage
       ELSE LET userProfile == fetches[f].userProfile
            IN  /\ ctx' = [ctx EXCEPT !.details =
                              detailsOf(userProfile, answer)]
                /\ webStorage' = [webStorage EXCEPT !.userDetails =
                      stringify([userTier |-> userProfile.user_tier,
                                 userLevel |-> userTierMap(userProfile.user_tier)])]
    /\ UNCHANGED <<mounts, syncVars, uploadVars, authVars, pullVars>>

\* handleLogout once supabase.auth.signOut() has settled (179-195)
handleLogout(ok) ==
    /\ ctx.mounted
    /\ IF ok
       THEN /\ ctx' = [setUser(ctx, Null) EXCEPT !.details = NoDetails]
            /\ webStorage' = [supabaseSession |-> Null, userDetails |-> Null]
       ELSE /\ ctx' = [ctx EXCEPT !.errorMessage =
                          "An error occurred during logout. Please try again."]
            /\ UNCHANGED webStorage
    /\ UNCHANGED <<mounts, fetches, syncVars, uploadVars, authVars, pullVars>>

InitCtx ==
    /\ ctx = Unmounted
    /\ webStorage = [supabaseSession |-> Null, userDetails |-> Null]
    /\ fetches = [f \in FetchIds |-> IdleFetch]
    /\ mounts = 0

\* ------------------------------------------------------------ specifications
vars == <<syncVars, uploadVars, authVars, pullVars, ctxVars>>

Init == InitSync /\ InitUpload /\ InitAuth /\ InitPull /\ InitCtx

\* The queue API on its own: enqueue, dequeue and remove in any order.
NextQueue ==
    \/ \E intent \in Intents, id \in OpIds : Enqueue(intent, id)
    \/ Dequeue
    \/ \E id \in OpIds : Remove(id)
    \/ Tick

SpecQueue == Init /\ [][NextQueue]_vars

\* two operations are enqueued
RetryEnqueue(intent, id) ==
    /\ id \in {1, 2}
    /\ Enqueue(intent, id)

\* Retry accounting of the operation queue: operations are enqueued and the
\* caller asks shouldRetry and calls updateRetryCount in any order, with any
\* operation object it holds.
NextRetry ==
    \/ \E intent \in {i \in Intents : i.type # "delete"}, id \in OpIds :
          RetryEnqueue(intent, id)
    \/ \E operation \in HeldOperations : ShouldRetry(operation)
    \/ \E operation \in HeldOperations : UpdateRetryCount(operation)

SpecRetry == Init /\ [][NextRetry]_vars

\* enqueue in a behaviour that also drains: at most MaxSyncOps operations
SyncEnqueue(intent, id) ==
    /\ Len(enqSeq) < MaxSyncOps
    /\ Enqueue(intent, id)

\* Writes are queued and one syncToRemote at a time drains them.
NextSync ==
    \/ \E intent \in Intents, id \in OpIds : SyncEnqueue(intent, id)
    \/ Tick
    \/ SyncStart("s1")
    \/ \E ok \in BOOLEAN : SyncCall("s1", ok)
    \/ SyncDelete("s1")

SpecSync == Init /\ [][NextSync]_vars

\* syncToRemote holds no lock: a second invocation may start while the first
\* is suspended at an await.
NextSyncOverlap ==
    \/ \E intent \in Intents, id \in OpIds : SyncEnqueue(intent, id)
    \/ \E d \in Syncs : SyncStart(d)
    \/ \E d \in Syncs, ok \in BOOLEAN : SyncCall(d, ok)
    \/ \E d \in Syncs : SyncDelete(d)

SpecSyncOverlap == Init /\ [][NextSyncOverlap]_vars

\* Files are submitted, the network comes and goes, and each return of the
\* network drains the upload queue; one drain at a time.
SpecUpload == Init /\ [][NextUpload]_vars

\* the steps of the drain: each await of processUploadQueue settles
DrainStep(p) ==
    \/ \E listOk \in BOOLEAN : ProcCheck(p, listOk)
    \/ \E ok \in BOOLEAN : ProcUpload(p, ok)

\* The same behaviours, where a remote call a drain is waiting for is
\* answered in the end (the transport's own timeout at the latest).
SpecUploadFair == SpecUpload /\ WF_vars(DrainStep("p1"))

\* One queued task; the network may return again while a drain is still in
\* progress, so that two drains overlap.
NextUploadOverlap ==
    \/ \E bucket \in {"processed-data"}, listOk \in BOOLEAN, ok \in BOOLEAN :
          UploadOne("f1", bucket, 1, listOk, ok)
    \/ GoOffline
    \/ \E p \in Drains : GoOnline(p)
    \/ \E p \in Drains, listOk \in BOOLEAN : ProcCheck(p, listOk)
    \/ \E p \in Drains, ok \in BOOLEAN : ProcUpload(p, ok)

SpecUploadOverlap == Init /\ [][NextUploadOverlap]_vars

\* the ids uuidv4 may return next: one id not used so far stands for them all
FreshIds ==
    LET free == TaskIds \ taskIds
    IN  IF free = {} THEN {1} ELSE {CHOOSE id \in free : \A other \in free : id <= other}

\* one uploadFiles call in a behaviour
BatchCall(files, bucket) ==
    /\ batch.pc = "idle"
    /\ UploadFilesCall(files, bucket)

\* an iteration of that call, its task (if it queues one) getting a fresh id
BatchStep(listOk, ok) ==
    \E id \in FreshIds : UploadFilesStep(id, listOk, ok)

\* uploadFiles is called once, with a list of files for either bucket, while
\* the network comes and goes and the queue is drained, one drain at a time.
NextBatch ==
    \/ \E files \in FileLists, bucket \in Buckets : BatchCall(files, bucket)
    \/ \E listOk \in BOOLEAN, ok \in BOOLEAN : BatchStep(listOk, ok)
    \/ GoOffline
    \/ GoOnline("p1")
    \/ \E listOk \in BOOLEAN : ProcCheck("p1", listOk)
    \/ \E ok \in BOOLEAN : ProcUpload("p1", ok)

SpecBatch == Init /\ [][NextBatch]_vars

\* The AuthService reads and signIn in any order, with any remote answers,
\* while time passes.
NextAuth ==
    \/ \E answer \in {RemoteError, Null} \cup FreshSessions : getSession(answer)
    \/ \E answer \in {RemoteError, Null} \cup RemoteUsers : getCurrentUser(answer)
    \/ getLocalSession
    \/ getLocalUser
    \/ \E answer \in {RemoteError, Null} \cup UserProfiles : getUserProfile(answer)
    \/ \E answer \in {RemoteError, Null} \cup Organizations : getOrganization(answer)
    \/ \E auth \in {RemoteError} \cup [session : FreshSessions, user : RemoteUsers],
          profileAnswer \in {RemoteError, Null} \cup UserProfiles,
          orgAnswer \in {RemoteError, Null} \cup Organizations :
              signIn(auth, profileAnswer, orgAnswer)
    \/ Tick

SpecAuth == Init /\ [][NextAuth]_vars

\* one write and one failed upload, to have something in both queues
AccountEnqueue ==
    SyncEnqueue([type |-> "create", table |-> "x", data |-> "r1"], 1)

AccountUpload ==
    UploadOne("f1", "processed-data", 1, TRUE, FALSE)

\* Accounts: signUp, signIn and signOut in any order with any remote answers,
\* next to one queued write and one queued upload.
NextAccount ==
    \/ \E licenseData \in {RemoteError, Null} \cup LicenseRows, ok \in BOOLEAN :
          signUp(licenseData, ok)
    \/ \E auth \in {RemoteError} \cup [session : FreshSessions, user : RemoteUsers],
          profileAnswer \in {RemoteError, Null} \cup UserProfiles,
          orgAnswer \in {RemoteError, Null} \cup Organizations :
              signIn(auth, profileAnswer, orgAnswer)
    \/ \E ok \in BOOLEAN : signOut(ok)
    \/ AccountEnqueue
    \/ AccountUpload

SpecAccount == Init /\ [][NextAccount]_vars

\* A table is pulled from the remote again and again, the remote answering
\* with any set of rows or with an error.
NextPull ==
    \E data \in {RemoteError} \cup RowSets : syncFromRemote(data)

SpecPull == Init /\ [][NextPull]_vars

\* The provider is mounted, sessions and auth events arrive, the user logs
\* out, and the application is closed and started again.
NextCtx ==
    \/ \E online \in BOOLEAN : Mount(online)
    \/ Unmount
    \/ \E answer \in CtxSessions \cup {Null, Threw} : SessionSettles(answer)
    \/ \E session \in CtxSessions \cup {Null} : AuthStateChange(session)
    \/ \E online \in BOOLEAN : FetchUserDetails(online)
    \/ \E f \in FetchIds, answer \in ProfileRows \cup {Null, Threw, RemoteError} :
          ProfileSettles(f, answer)
    \/ \E f \in FetchIds, answer \in OrganizationRows \cup {Null, Threw, RemoteError} :
          OrganizationSettles(f, answer)
    \/ \E ok \in BOOLEAN : handleLogout(ok)

SpecCtx == Init /\ [][NextCtx]_vars

\* =================================================================== claims
LastIssued(d) == sync[d].issued[Len(sync[d].issued)]

\* the operations of the snapshot with a remote call issued in this invocation
IssuedBefore(d, j) == { sync[d].issued[m] : m \in 1..(j - 1) }

EnqPos(id) == CHOOSE k \in 1..Len(enqSeq) : enqSeq[k] = id

\* C1: in syncToRemote a queue entry is deleted only after the remote call for
\* that operation returned without error; an operation whose remote call
\* returned an error is still in the pending-operations store.
C1_DeleteOnlyAfterSuccess ==
    /\ [](\A d \in Syncs :
            (sync[d].issued # << >> /\ ~sync[d].lastOk)
                => /\ LastIssued(d).id \in DOMAIN pending
                   /\ pending[LastIssued(d).id] = LastIssued(d))
    /\ [][\A id \in DOMAIN pending :
            id \notin DOMAIN pending'
                => \E d \in Syncs : /\ sync[d].pc = "delete"
                                    /\ sync[d].lastOk
                                    /\ LastIssued(d).id = id]_vars

\* a drain deleted its first operation after success, its second call failed
\* and that operation is still pending
C1_Witness ==
    \E d \in Syncs :
        /\ sync[d].outcome = "threw"
        /\ Len(sync[d].issued) = 2
        /\ ~sync[d].lastOk
        /\ sync[d].issued[2].id \in DOMAIN pending
        /\ sync[d].issued[1].id \notin DOMAIN pending

\* C2: a failed remote call does not abort the drain: when syncToRemote has
\* ended, every operation of its snapshot has had its remote call issued.
C2_DrainNotAborted ==
    \A d \in Syncs :
        (sync[d].pc = "idle" /\ sync[d].outcome # "none")
            => \A k \in 1..Len(sync[d].ops) : sync[d].ops[k] \in Range(sync[d].issued)

\* C3: within one syncToRemote, when the call for an operation is issued, the
\* call for every operation of the snapshot with a smaller timestamp has been
\* issued before it.
C3_TimestampOrder ==
    \A d \in Syncs : \A j \in 1..Len(sync[d].issued) : \A k \in 1..Len(sync[d].ops) :
        sync[d].ops[k].timestamp < sync[d].issued[j].timestamp
            => sync[d].ops[k] \in IssuedBefore(d, j)

\* the t:50 operation was stored after (under a larger key than) the t:100 one
\* and was dispatched first
C3_Witness ==
    \E d \in Syncs :
        /\ Len(sync[d].issued) = 2
        /\ sync[d].issued[1].timestamp < sync[d].issued[2].timestamp
        /\ sync[d].issued[1].id > sync[d].issued[2].id
        /\ sync[d].issued[1].type = "update"
        /\ sync[d].issued[2].type = "create"

\* C4: within one syncToRemote, when the call for an operation is issued, the
\* call for every operation of the snapshot that was enqueued before it has
\* been issued before it, equal timestamps included.
C4_EnqueueOrder ==
    \A d \in Syncs : \A j \in 1..Len(sync[d].issued) : \A k \in 1..Len(sync[d].ops) :
        EnqPos(sync[d].ops[k].id) < EnqPos(sync[d].issued[j].id)
            => sync[d].ops[k] \in IssuedBefore(d, j)

\* C5: dequeue returns a pending operation of smallest timestamp, and null
\* exactly when nothing is pending.
C5_DequeueSmallest ==
    lastCall.name = "dequeue" =>
        /\ (lastCall.ret = Null) <=> (DOMAIN pending = {})
        /\ lastCall.ret # Null =>
              /\ lastCall.ret.id \in DOMAIN pending
              /\ pending[lastCall.ret.id] = lastCall.ret
              /\ \A k \in DOMAIN pending : lastCall.ret.timestamp <= pending[k].timestamp

\* after enqueues and a remove, dequeue returned the earlier of two pending
\* operations, which is not the one stored first
C5_Witness ==
    /\ lastCall.name = "dequeue"
    /\ lastCall.ret # Null
    /\ Cardinality(DOMAIN pending) = 2
    /\ Len(enqSeq) = 3
    /\ \E k \in DOMAIN pending :
          k < lastCall.ret.id /\ lastCall.ret.timestamp < pending[k].timestamp

\* C6: dequeue leaves the store as it was, the operation it returns is still
\* pending, a dequeue right after a dequeue returns the same operation, and an
\* entry leaves the store only by remove (no drain runs here).
C6_DequeueKeeps ==
    [][/\ lastCall'.name = "dequeue" =>
            /\ pending' = pending
            /\ lastCall'.ret # Null =>
                  /\ lastCall'.ret.id \in DOMAIN pending'
                  /\ pending'[lastCall'.ret.id] = lastCall'.ret
            /\ lastCall.name = "dequeue" => lastCall'.ret = lastCall.ret
       /\ \A id \in DOMAIN pending :
            id \notin DOMAIN pending' => (lastCall'.name = "remove" /\ lastCall'.id = id)
      ]_vars

\* dequeue returned an operation that is still pending next to another one
C6_Witness ==
    /\ lastCall.name = "dequeue"
    /\ lastCall.ret # Null
    /\ lastCall.ret.id \in DOMAIN pending
    /\ Cardinality(DOMAIN pending) >= 2

\* C7: remove(id) for an id that is not in the store (removed before, or never
\* queued) raises no error and leaves the store as it was.
C7_RemoveIdempotent ==
    [][(lastCall'.name = "remove" /\ ~lastCall'.present)
          => (pending' = pending /\ ~lastCall'.threw)]_vars

\* remove was called for an operation that had been queued and removed before,
\* while another operation is pending
C7_Witness ==
    /\ lastCall.name = "remove"
    /\ ~lastCall.present
    /\ lastCall.id \in Range(enqSeq)
    /\ DOMAIN pending # {}

\* C8: enqueue adds exactly one pending operation, with the caller's type,
\* table and data, retryCount 0 and an id no other pending operation has, and
\* leaves every operation that was pending as it was.
C8_EnqueueAddsOne ==
    [][lastCall'.name = "enqueue" /\ lastCall' # lastCall =>
         LET id == lastCall'.id
         IN  /\ id \notin DOMAIN pending
             /\ DOMAIN pending' = DOMAIN pending \cup {id}
             /\ pending'[id].id = id
             /\ pending'[id].type = lastCall'.intent.type
             /\ pending'[id].table = lastCall'.intent.table
             /\ pending'[id].data = lastCall'.intent.data
             /\ pending'[id].retryCount = 0
             /\ pending'[id].timestamp = now
             /\ \A k \in DOMAIN pending : pending'[k] = pending[k]]_vars

\* an operation was enqueued next to two pending ones
C8_Witness ==
    /\ lastCall.name = "enqueue"
    /\ Cardinality(DOMAIN pending) = 3
    /\ pending[lastCall.id].retryCount = 0

\* C9 as claimed: a task whose upload has failed 3 times in processUploadQueue
\* is out of the queue, and no task has a 4th failed upload.
C9_DroppedAfterThree ==
    \A id \in TaskIds :
        /\ fails[id] >= 3 => id \notin DOMAIN uploadQueue
        /\ fails[id] <= 3

\* C9 as amended: a task is dropped for failure only by the failed upload that
\* finds its retries at 3, never before its 4th failed upload; the failures up
\* to the third write it back with retries raised by one, so a further upload
\* is attempted for it.
C9_DroppedAtFourth ==
    /\ (lastStep.kind = "upload" /\ ~lastStep.ok /\ fails[lastStep.id] <= 3)
          => /\ lastStep.note = "retrying"
             /\ lastStep.id \in DOMAIN uploadQueue
             /\ uploadQueue[lastStep.id].retries = lastStep.retries + 1
    /\ (lastStep.kind = "upload" /\ lastStep.note = "maxRetries")
          => /\ lastStep.retries = 3
             /\ fails[lastStep.id] >= 4
             /\ lastStep.id \notin DOMAIN uploadQueue
    /\ \A id \in DOMAIN uploadQueue :
          uploadQueue[id].retries <= fails[id] /\ uploadQueue[id].retries <= 3

\* the 4th failed upload of a task dropped it
C9_Witness ==
    /\ lastStep.kind = "upload"
    /\ lastStep.note = "maxRetries"
    /\ fails[lastStep.id] = 4
    /\ lastStep.id \notin DOMAIN uploadQueue

\* C10 as claimed: processUploadQueue never calls the remote upload for a task
\* it finds with retries = 3.
C10_NoUploadAtThree ==
    ~(lastStep.kind = "upload" /\ lastStep.retries = 3)

\* C10 as amended: for a task found with retries = 3 whose file is absent the
\* remote upload is called; the task is dropped with the terminal-failure
\* notification only when that upload fails, and removed with the success
\* notification when it succeeds.
C10_UploadAtThreeThenDrop ==
    /\ (lastStep.kind = "check" /\ lastStep.note = "absent")
          => \E p \in Drains : /\ drain[p].pc = "upload"
                               /\ drain[p].tasks[drain[p].i].id = lastStep.id
    /\ (lastStep.kind = "upload" /\ lastStep.retries = 3 /\ ~lastStep.ok)
          => /\ lastStep.note = "maxRetries"
             /\ lastStep.id \notin DOMAIN uploadQueue
    /\ (lastStep.kind = "upload" /\ lastStep.retries = 3 /\ lastStep.ok)
          => /\ lastStep.note = "success"
             /\ lastStep.id \notin DOMAIN uploadQueue
    /\ (lastStep.kind # "none" /\ lastStep.note = "maxRetries")
          => /\ lastStep.kind = "upload"
             /\ ~lastStep.ok
             /\ lastStep.retries = 3

\* the upload was called for a task with retries = 3, failed, and the task was
\* dropped while another task stays queued
C10_Witness ==
    /\ lastStep.kind = "upload"
    /\ lastStep.retries = 3
    /\ ~lastStep.ok
    /\ lastStep.note = "maxRetries"
    /\ DOMAIN uploadQueue # {}

\* ---------------------------------------------------------------- C11
\* C11: an uploadFiles call made while the status is offline queues one task
\* for each of its N files, in order, each with retries 0 and status queued,
\* and calls the remote neither to list nor to upload; each of its iterations
\* adds exactly its new task to the queue and leaves the remote alone.
C11_OfflineQueuesAll ==
    /\ [](batch.pc = "done" /\ ~batch.online
            => /\ Len(batch.log) = Len(batch.files)
               /\ \A k \in 1..Len(batch.log) :
                    /\ ~batch.log[k].listCalled
                    /\ ~batch.log[k].upCalled
                    /\ batch.log[k].task # Null
                    /\ batch.log[k].task.file = batch.files[k]
                    /\ batch.log[k].task.bucket = batch.bucket
                    /\ batch.log[k].task.retries = 0
                    /\ batch.log[k].task.status = "queued"
               /\ \A j, k \in 1..Len(batch.log) :
                    j # k => batch.log[j].task.id # batch.log[k].task.id)
    /\ [][batch.pc = "run" /\ ~batch.online /\ batch' # batch
            => /\ remote' = remote
               /\ batch'.log[Len(batch'.log)].task # Null
               /\ batch'.log[Len(batch'.log)].task.id \notin DOMAIN uploadQueue
               /\ uploadQueue' = addToQueue(uploadQueue,
                                            batch'.log[Len(batch'.log)].task)]_vars

\* an offline call with two files has returned, the status came back while it
\* ran, and both of its tasks are in the queue
C11_Witness ==
    /\ batch.pc = "done"
    /\ ~batch.online
    /\ isOnline
    /\ Len(batch.files) = 2
    /\ \A k \in 1..2 : /\ batch.log[k].task # Null
                       /\ batch.log[k].task.id \in DOMAIN uploadQueue

\* ---------------------------------------------------------------- C12
\* C12: in an online uploadFiles call to any bucket, once a file has been
\* uploaded successfully, a later submission of the same file whose existence
\* check is answered is skipped: the check reports the file present and the
\* remote upload is not called again.
C12_SecondSubmissionSkipped ==
    \A j, k \in 1..Len(batch.log) :
        (/\ j < k
         /\ batch.online
         /\ batch.files[j] = batch.files[k]
         /\ batch.log[j].upCalled /\ batch.log[j].upOk
         /\ batch.log[k].listCalled /\ batch.log[k].listOk)
            => /\ batch.log[k].exists
               /\ ~batch.log[k].upCalled

\* ---------------------------------------------------------------- C13
\* C13: uploadFiles returns one path per input file, in input order, each
\* basePath/fileName, whatever was done with the file; while it runs, the
\* paths collected so far are those of the files already handled.
C13_PathPerFile ==
    /\ batch.pc = "done" => Len(batch.paths) = Len(batch.files)
    /\ Len(batch.paths) = Len(batch.log)
    /\ Len(batch.paths) <= Len(batch.files)
    /\ \A k \in 1..Len(batch.paths) : batch.paths[k] = <<BasePath, batch.files[k]>>

\* a returned call for the same file twice: the first was uploaded, the
\* second skipped as existing, and both paths came back
C13_Witness ==
    /\ batch.pc = "done"
    /\ Len(batch.files) = 2
    /\ batch.log[1].upCalled /\ batch.log[1].upOk
    /\ batch.log[2].exists /\ ~batch.log[2].upCalled
    /\ batch.paths = << <<BasePath, batch.files[1]>>, <<BasePath, batch.files[2]>> >>

\* ---------------------------------------------------------------- C14
\* C14: in an online uploadFiles call, an iteration whose upload fails adds
\* exactly one new task for its file, with retries 0, to the upload queue; an
\* iteration that uploads or skips adds none; either way the call moves on to
\* the next file and ends only after the last one.
C14_FailureQueuesAndContinues ==
    /\ [][batch.pc = "run" /\ batch.online /\ batch' # batch
            => LET file == batch.files[batch.i]
                   e == batch'.log[Len(batch'.log)]
               IN  /\ Len(batch'.log) = batch.i
                   /\ batch'.i = batch.i + 1
                   /\ batch'.pc = (IF batch.i < Len(batch.files) THEN "run" ELSE "done")
                   /\ (e.upCalled /\ ~e.upOk)
                        => /\ e.task # Null
                           /\ e.task.file = file
                           /\ e.task.retries = 0
                           /\ e.task.id \notin DOMAIN uploadQueue
                           /\ uploadQueue' = addToQueue(uploadQueue, e.task)
                   /\ (e.exists \/ e.upOk)
                        => /\ e.task = Null
                           /\ uploadQueue' = uploadQueue]_vars
    /\ [](batch.pc = "done" => Len(batch.log) = Len(batch.files))

\* an online call has returned: the upload of its first file failed and left a
\* task in the queue, and its second file was uploaded
C14_Witness ==
    /\ batch.pc = "done"
    /\ batch.online
    /\ Len(batch.files) = 2
    /\ batch.log[1].upCalled /\ ~batch.log[1].upOk
    /\ batch.log[1].task # Null
    /\ batch.log[1].task.id \in DOMAIN uploadQueue
    /\ batch.log[2].upCalled /\ batch.log[2].upOk

\* ---------------------------------------------------------------- C15
\* C15: when the list call of the existence check errors, the file counts as
\* absent: uploadFiles goes on to call the upload for that file, and
\* processUploadQueue keeps the task in the queue and moves to its upload.
C15_FailOpen ==
    /\ [](\A k \in 1..Len(batch.log) :
            (batch.log[k].listCalled /\ ~batch.log[k].listOk)
                => /\ ~batch.log[k].exists
                   /\ batch.log[k].upCalled)
    /\ [][\A p \in Drains :
            (/\ drain[p].pc = "check"
             /\ drain'[p] # drain[p]
             /\ lastStep'.kind = "check"
             /\ ~lastStep'.listOk)
                => /\ lastStep'.note = "absent"
                   /\ lastStep'.id = drain[p].tasks[drain[p].i].id
                   /\ uploadQueue' = uploadQueue
                   /\ drain'[p] = [drain[p] EXCEPT !.pc = "upload"]]_vars

\* the list call errored for a file that is stored remotely, in a finished
\* uploadFiles call and in the drain step just taken
C15_Witness ==
    /\ batch.pc = "done"
    /\ \E k \in 1..Len(batch.log) :
          /\ batch.log[k].listCalled /\ ~batch.log[k].listOk
          /\ <<"processed-data", batch.paths[k]>> \in remote
          /\ batch.log[k].upCalled
    /\ lastStep.kind = "check"
    /\ ~lastStep.listOk
    /\ drain["p1"].pc = "upload"
    /\ <<"processed-data", drain["p1"].tasks[drain["p1"].i].path>> \in remote

\* ---------------------------------------------------------------- C16
\* C16: every step that takes the status from offline to online starts a
\* drain: a processUploadQueue invocation that was idle now holds the whole
\* queue as read at that moment, at its first task's existence check (with an
\* empty queue there is nothing to do and it ends at once). A
\* processUploadQueue call made while offline makes no remote call and
\* changes neither the queue nor the remote.
C16_OnlineStartsDrain ==
    /\ [][(~isOnline /\ isOnline')
            => \E p \in Drains :
                  /\ drain[p].pc = "idle"
                  /\ drain'[p] = (IF DOMAIN uploadQueue = {} THEN IdleDrain
                                  ELSE [pc |-> "check",
                                        tasks |-> getAllQueuedUploads(uploadQueue),
                                        i |-> 1])
                  /\ \A q \in Drains \ {p} : drain'[q] = drain[q]]_vars
    /\ [][(~isOnline /\ lastStep'.kind = "processCall")
            => /\ \A p \in Drains : drain'[p] = drain[p]
               /\ uploadQueue' = uploadQueue
               /\ remote' = remote]_vars

\* the status has just come back with two tasks queued and the drain holds
\* both
C16_Witness ==
    /\ isOnline
    /\ lastStep = NoStep
    /\ drain["p1"].pc = "check"
    /\ drain["p1"].i = 1
    /\ Len(drain["p1"].tasks) = 2
    /\ DOMAIN uploadQueue = {1, 2}

\* ---------------------------------------------------------------- C17
\* C17: at most one drain of the upload queue is in progress at any moment,
\* and no two processUploadQueue runs are at the remote upload of the same
\* task.
C17_SingleDrain ==
    /\ \A p, q \in Drains :
          (drain[p].pc # "idle" /\ drain[q].pc # "idle") => p = q
    /\ \A p, q \in Drains :
          (/\ drain[p].pc = "upload"
           /\ drain[q].pc = "upload"
           /\ drain[p].tasks[drain[p].i].id = drain[q].tasks[drain[q].i].id) => p = q

\* ---------------------------------------------------------------- C18
\* C18: each read of a cached auth entity asks the remote first: whenever the
\* remote has a value to answer with, the read returns that value and the
\* local copy has been overwritten with it.
C18_RemoteFirst ==
    /\ (authCall.name \in {"getSession", "getUserProfile", "getOrganization"}
        /\ authCall.answer \notin {RemoteError, Null})
          => /\ authCall.result = authCall.answer
             /\ authCall.name = "getSession" => cache.session = authCall.answer
             /\ authCall.name = "getUserProfile" => cache.profile = authCall.answer
             /\ authCall.name = "getOrganization" => cache.org = authCall.answer
    /\ (authCall.name = "getCurrentUser" /\ authCall.answer \notin {RemoteError, Null})
          => /\ authCall.result = toUser(authCall.answer)
             /\ cache.user = toUser(authCall.answer)

\* ---------------------------------------------------------------- C19
\* C19: after a call that fetched a session, user, profile or organization
\* from the remote, the Local Store holds that value (for a user, its id,
\* email and last_sign_in_at as the User record keeps them); this covers
\* getSession, getCurrentUser, getUserProfile, getOrganization and signIn.
C19_WriteThrough ==
    /\ authCall.name # "none"
          => /\ authCall.fetched.session # Null => cache.session = authCall.fetched.session
             /\ authCall.fetched.user # Null => cache.user = toUser(authCall.fetched.user)
             /\ authCall.fetched.profile # Null => cache.profile = authCall.fetched.profile
             /\ authCall.fetched.org # Null => cache.org = authCall.fetched.org
    /\ (authCall.name \in {"getSession", "getCurrentUser", "getUserProfile", "getOrganization"}
        /\ authCall.remoteCalled
        /\ authCall.answer \notin {RemoteError, Null})
          => /\ authCall.name = "getSession" => cache.session = authCall.answer
             /\ authCall.name = "getCurrentUser" => cache.user = toUser(authCall.answer)
             /\ authCall.name = "getUserProfile" => cache.profile = authCall.answer
             /\ authCall.name = "getOrganization" => cache.org = authCall.answer
    /\ (authCall.name = "signIn" /\ authCall.answer # RemoteError)
          => /\ cache.session = authCall.answer.session
             /\ cache.user = toUser(authCall.answer.user)

\* signIn fetched all four entities from the remote, over an older cached
\* session, and returned
C19_Witness ==
    /\ authCall.name = "signIn"
    /\ authCall.result # Threw
    /\ authCall.fetched.session # Null
    /\ authCall.fetched.user # Null
    /\ authCall.fetched.profile # Null
    /\ authCall.fetched.org # Null
    /\ cache.org = authCall.fetched.org

\* ---------------------------------------------------------------- C20
\* C20: a session read (getLocalSession, or getSession after the remote
\* failed) that finds a cached session whose expires_at is not later than the
\* current time returns no session and leaves no session in the Local Store.
C20_ExpiredNeverReturned ==
    (/\ \/ authCall.name = "getLocalSession"
        \/ authCall.name = "getSession" /\ authCall.answer = RemoteError
     /\ authCall.local # Null
     /\ authCall.local.expires_at # 0
     /\ authCall.local.expires_at <= authCall.at)
        => /\ authCall.result = Null
           /\ cache.session = Null

\* ---------------------------------------------------------------- C21
\* C21: a signUp whose license key is not found, or is found inactive,
\* rejects: supabase.auth.signUp is not called, the stored license key is
\* left as it was, and neither the operation queue nor the upload queue nor
\* the cached entities change.
C21_InvalidLicenseRejected ==
    /\ [](LET invalid == IF authCall.answer \in {RemoteError, Null} THEN TRUE
                         ELSE ~authCall.answer.is_active
          IN  (authCall.name = "signUp" /\ invalid)
                 => /\ authCall.result = Threw
                    /\ ~authCall.remoteCalled)
    /\ [][LET invalid == IF authCall'.answer \in {RemoteError, Null} THEN TRUE
                         ELSE ~authCall'.answer.is_active
          IN  (authCall' # authCall /\ authCall'.name = "signUp" /\ invalid)
                 => /\ localStorage' = localStorage
                    /\ pending' = pending
                    /\ uploadQueue' = uploadQueue
                    /\ cache' = cache]_vars

\* signUp was refused for an inactive key while a write and an upload are
\* queued and no key is stored
C21_Witness ==
    /\ authCall.name = "signUp"
    /\ authCall.answer \in LicenseRows
    /\ ~authCall.answer.is_active
    /\ authCall.result = Threw
    /\ localStorage = "null"
    /\ pending # << >>
    /\ DOMAIN uploadQueue # {}

\* ---------------------------------------------------------------- C28
\* C28: signOut clears the local cache only after the remote sign-out
\* succeeded: then the cached session, user, profile and organization are all
\* absent; when the remote sign-out answers with an error the call rejects
\* and every cached entity is what it was before the call.
C28_SignOutAfterRemote ==
    authCall.name = "signOut"
        => /\ authCall.answer # RemoteError
                => /\ authCall.result = Null
                   /\ cache.session = Null
                   /\ cache.user = Null
                   /\ cache.profile = Null
                   /\ cache.org = Null
           /\ authCall.answer = RemoteError
                => /\ authCall.result = Threw
                   /\ cache = authCall.local

\* the remote sign-out failed with all four entities cached, and they are
\* still there
C28_Witness ==
    /\ authCall.name = "signOut"
    /\ authCall.answer = RemoteError
    /\ cache.session # Null
    /\ cache.user # Null
    /\ cache.profile # Null
    /\ cache.org # Null

\* ---------------------------------------------------------------- C22
\* C22: syncFromRemote never prunes: every row that was in the local table
\* before the call is there after it, unchanged or replaced by the fetched
\* row with its primary key; rows the remote no longer returns stay.
C22_NoPrune ==
    lastPull.name = "syncFromRemote"
        => /\ DOMAIN lastPull.before \subseteq DOMAIN localTable
           /\ \A k \in DOMAIN lastPull.before :
                 localTable[k] = IF lastPull.data # RemoteError /\ k \in DOMAIN lastPull.data
                                 THEN lastPull.data[k]
                                 ELSE lastPull.before[k]

\* a pull answered with row r1, in new contents, and a new row r3 while r1
\* and r2 were stored: r2 is still there, r1 was replaced, r3 was added
C22_Witness ==
    /\ lastPull.name = "syncFromRemote"
    /\ DOMAIN lastPull.before = {"r1", "r2"}
    /\ lastPull.data # RemoteError
    /\ DOMAIN lastPull.data = {"r1", "r3"}
    /\ DOMAIN localTable = {"r1", "r2", "r3"}
    /\ lastPull.data["r1"] # lastPull.before["r1"]
    /\ localTable["r2"] = lastPull.before["r2"]
    /\ localTable["r1"] = lastPull.data["r1"]

\* ---------------------------------------------------------------- C23
\* C23: when the upload of a task found with retries < 3 fails in
\* processUploadQueue, the task stays in the queue, its retries one higher
\* than before the failure and its id, file, path and bucket unchanged, and
\* the drain moves past the task without a further upload of it.
C23_RetryIncrement ==
    [][\A p \in Drains :
          (/\ drain[p].pc = "upload"
           /\ drain'[p] # drain[p]
           /\ lastStep'.kind = "upload"
           /\ ~lastStep'.ok
           /\ lastStep'.retries < 3)
              => LET id == drain[p].tasks[drain[p].i].id
                 IN  /\ id \in DOMAIN uploadQueue
                     /\ id \in DOMAIN uploadQueue'
                     /\ uploadQueue'[id] = [uploadQueue[id] EXCEPT !.retries = @ + 1]
                     /\ drain'[p] = advance(drain[p])
                     /\ \A k \in 1..Len(drain[p].tasks) :
                           drain[p].tasks[k].id = id => k = drain[p].i]_vars

\* ---------------------------------------------------------------- C24
\* C24: when the existence check of processUploadQueue finds the task's file
\* stored remotely, the task is removed from the queue, nothing is uploaded
\* for it, and the drain goes on to the next task of its snapshot (or ends
\* after the last).
C24_ExistingRemoved ==
    [][\A p \in Drains :
          (/\ drain[p].pc = "check"
           /\ drain'[p] # drain[p]
           /\ lastStep'.kind = "check"
           /\ lastStep'.note = "exists")
              => LET id == drain[p].tasks[drain[p].i].id
                 IN  /\ lastStep'.id = id
                     /\ uploadQueue' = removeFromQueue(uploadQueue, id)
                     /\ id \notin DOMAIN uploadQueue'
                     /\ remote' = remote
                     /\ drain'[p].pc # "upload"
                     /\ drain'[p] = (IF drain[p].i < Len(drain[p].tasks)
                                     THEN [drain[p] EXCEPT !.i = @ + 1, !.pc = "check"]
                                     ELSE IdleDrain)]_vars

\* the drain found the first of two queued tasks stored remotely, removed it
\* and stands at the check of the second
C24_Witness ==
    /\ lastStep.kind = "check"
    /\ lastStep.note = "exists"
    /\ drain["p1"].pc = "check"
    /\ drain["p1"].i = 2
    /\ lastStep.id = drain["p1"].tasks[1].id
    /\ lastStep.id \notin DOMAIN uploadQueue
    /\ drain["p1"].tasks[2].id \in DOMAIN uploadQueue

\* ---------------------------------------------------------------- C29
\* C29: every task in the upload queue has 0 <= retries <= 3, after any
\* sequence of submissions, drains (overlapping or not), upload failures and
\* changes of the network status.
C29_RetriesInRange ==
    \A id \in DOMAIN uploadQueue :
        /\ uploadQueue[id].retries >= 0
        /\ uploadQueue[id].retries <= 3

\* a task sits in the queue with retries 3 after its third failed upload
C29_Witness ==
    /\ lastStep.kind = "upload"
    /\ ~lastStep.ok
    /\ lastStep.retries = 2
    /\ lastStep.id \in DOMAIN uploadQueue
    /\ uploadQueue[lastStep.id].retries = 3

\* ---------------------------------------------------------------- C30
\* C30: a task that was queued and has been removed from the upload queue
\* is never in the queue again, whatever drains overlap.
C30_NoReappearance ==
    [][\A id \in taskIds :
          id \notin DOMAIN uploadQueue => id \notin DOMAIN uploadQueue']_vars

\* ---------------------------------------------------------------- C26
\* C26: a drain that has read its snapshot is never cancelled: each of its
\* steps either moves from the existence check of the task at hand to its
\* upload or moves on to the next task of the snapshot (ending after the
\* last), so every task of the snapshot is handled once and in order; a change
\* of the network status leaves the drain where it is; and the drain comes to
\* its end.
C26_DrainRunsToEnd ==
    /\ [][\A p \in Drains :
            drain[p].pc # "idle"
               => \/ drain'[p] = drain[p]
                  \/ /\ drain[p].pc = "check"
                     /\ drain'[p] = [drain[p] EXCEPT !.pc = "upload"]
                  \/ /\ drain[p].i < Len(drain[p].tasks)
                     /\ drain'[p] = [drain[p] EXCEPT !.i = @ + 1, !.pc = "check"]
                  \/ /\ drain[p].i = Len(drain[p].tasks)
                     /\ drain'[p] = IdleDrain]_vars
    /\ [][isOnline' # isOnline
            => \A p \in Drains : drain[p].pc # "idle" => drain'[p] = drain[p]]_vars
    /\ \A n \in 1..MaxTasks :
          (drain["p1"].pc # "idle" /\ Len(drain["p1"].tasks) = n /\ drain["p1"].i = 1)
             ~> (lastStep.kind \in {"check", "upload"} /\ drain["p1"].pc = "idle")

\* the status is offline while the drain stands at the upload of the second
\* task of its snapshot
C26_Witness ==
    /\ ~isOnline
    /\ drain["p1"].pc = "upload"
    /\ drain["p1"].i = 2
    /\ Len(drain["p1"].tasks) = 2

\* ---------------------------------------------------------------- C25
\* C25: provided drains keep being triggered (the status keeps coming back
\* online), every task that is in the upload queue is later out of it.
C25_TaskEventuallyLeaves ==
    ([]<><<GoOnline("p1")>>_vars)
        => \A id \in TaskIds :
              (id \in DOMAIN uploadQueue) ~> (id \notin DOMAIN uploadQueue)

\* a task was dropped after the upload that found it with retries 3 failed,
\* and the other task is still queued
C25_Witness ==
    /\ lastStep.kind = "upload"
    /\ lastStep.note = "maxRetries"
    /\ lastStep.id \notin DOMAIN uploadQueue
    /\ taskIds = {1, 2}
    /\ DOMAIN uploadQueue # {}
    /\ fails[lastStep.id] = 4

Dispatched(d) ==
    LET issued == sync[d].issued
        n == IF sync[d].lastOk THEN Len(issued) ELSE Len(issued) - 1
    IN  { issued[k].id : k \in 1..n }

\* C31: no pending operation has its remote create/update/delete issued by
\* two syncToRemote invocations.
C31_DispatchedOnce ==
    \A d1, d2 \in Syncs : d1 # d2 => Dispatched(d1) \cap Dispatched(d2) = {}

\* C32: fetchSession leaves the loading state on every path: once the call
\* made at mount has ended, online or offline and whatever is stored under
\* supabaseSession, loading is false.
C32_LoadingLeft ==
    (ctx.mounted /\ ctx.fetchSession \in {"returned", "threw"}) => ~ctx.loading

\* every fetch of the provider has settled and the effect on [user] has run
Settled ==
    /\ ctx.mounted
    /\ ctx.fetchSession # "awaiting"
    /\ ~ctx.effectDue
    /\ \A f \in FetchIds : fetches[f].pc \notin {"profile", "org"}

\* C33: once all pending fetches have settled, a null user has tier "none",
\* level 0 and no organization: a fetchUserDetails request that completes
\* after a logout or a sign-out event does not bring them back.
C33_NoDetailsWithoutUser ==
    (Settled /\ ctx.user = Null) => ctx.details = NoDetails

====
